---- MODULE Spec2Model ----
(***************************************************************************)
(* Model of device_grabber (src/core/grabber/include/device_grabber.hpp):  *)
(* the grab/ungrab orchestration of matched keyboard devices, its retry    *)
(* timer, the main dispatch queue that serializes grab_devices() and       *)
(* ungrab_devices(), the hot-plug callbacks and the value callback that    *)
(* routes events to the event manipulator.                                 *)
(*                                                                         *)
(* human_interface_device, event_manipulator and hid_system_client are not *)
(* part of the modelled file; the hid_* operators and the environment      *)
(* actions below model them from their use in device_grabber.hpp and from  *)
(* the interface description of the specification.                         *)
(***************************************************************************)
EXTENDS Integers, Sequences, FiniteSets, TLC

VARIABLES
    hids_,             \* std::unordered_map<IOHIDDeviceRef, unique_ptr<human_interface_device>>
    grabbed_,          \* bool grabbed_
    grab_timer_,       \* dispatch_source_t grab_timer_ (0 = null)
    grab_retry_count_, \* size_t grab_retry_count_
    timers,            \* the dispatch timer sources that are not cancelled, with the
                       \* __block last_warning_message_time their handler captured
    queue,             \* blocks dispatch_async'ed to the main queue, not yet run
    modifier_flags,    \* modifier_flag_manager_: the asserted modifier flags
    caps_lock_state,   \* hardware caps lock state behind hid_system_client_
    key_repeat,        \* console_user_client_: a key repeat is pending
    ready,             \* event_manipulator_.is_ready()
    now,               \* ::time(nullptr), whole seconds
    completion_failed, \* history: devices whose seize failed in the last grab
                       \* completion and that were not ungrabbed or removed since
    retry_due,         \* history: the devices of completion_failed when the current
                       \* grab timer was armed, on which grab was not invoked since
    ungrab_last,       \* history: the last block the main queue ran was that of ungrab_devices
    discarded,         \* history: events the value callback dropped at its grabbed_ gate
    delivered,         \* history: events the value callback received while grabbed_
    forwarded,         \* history: handle_keyboard_event calls made
    recording,         \* history switch: the outbound calls and warnings are recorded
    calls,             \* history: the calls the last task of the main queue made on the
                       \* device handles, the collaborators and the logger
    simple_modifications_,       \* std::unordered_map<key_code, key_code>
    simple_modifications_mutex_, \* std::mutex: the thread that holds it (0 = free)
    callers,           \* the configuration threads: the call each is in and its position
    serial,            \* history: the table after the completed calls, applied in the
                       \* order in which they entered their critical section
    lifetime,          \* the position of ~device_grabber: "alive", "cancelled", "destroyed"
    crashed,           \* the process died of an access to freed or racing memory
    broadcast          \* the set_caps_lock_led_state call in progress on the caller's thread

vars == <<hids_, grabbed_, grab_timer_, grab_retry_count_, timers, queue,
          modifier_flags, caps_lock_state, key_repeat, ready, now,
          completion_failed, retry_due, ungrab_last, discarded, delivered, forwarded,
          recording, calls, simple_modifications_, simple_modifications_mutex_,
          callers, serial, lifetime, crashed, broadcast>>

orchestration == <<hids_, grabbed_, grab_timer_, grab_retry_count_, timers, queue,
                   modifier_flags, caps_lock_state, key_repeat, completion_failed,
                   retry_due, ungrab_last>>

router == <<discarded, delivered, forwarded>>

table == <<simple_modifications_, simple_modifications_mutex_, callers, serial>>

\* What the orchestration and the router leave alone.
aside == <<recording, table, lifetime, crashed>>

rest == <<aside, broadcast>>

-----------------------------------------------------------------------------
(* Bounds of the model.                                                    *)

MaxTime == 1       \* the wall clock runs over the seconds 0 .. MaxTime
MaxQueue == 1      \* blocks pending on the main queue
MaxTimers == 2     \* dispatch sources that can exist at once
MaxEvents == 2     \* events delivered to the value callback

Devices == {"virtual", "kbd_a", "kbd_b"}
Keys == {"key_a"}
TimerIds == 1 .. MaxTimers

NoManufacturer == "(none)"
Unknown == "unknown"

MaxThreads == 2    \* threads that call the simple modification API
Threads == 1 .. MaxThreads
FromKeyCodes == {"caps_lock", "escape"}
ToKeyCodes == {"delete", "escape"}
DefaultKeyCode == "key_code()"   \* a value-initialized krbn::key_code

\* A thread that is in no call.
Idle == [op |-> "none", pc |-> "idle", from |-> DefaultKeyCode, to |-> DefaultKeyCode]

\* No set_caps_lock_led_state call is in progress.
NoBroadcast == [active |-> FALSE, todo |-> {}, state |-> "off", raced |-> FALSE]

-----------------------------------------------------------------------------
(* human_interface_device: the per-device handle.                          *)

\* get_manufacturer(): optional metadata of the device.
get_manufacturer(d) ==
    CASE d = "virtual" -> "pqrs.org"
      [] d = "kbd_a"   -> "Apple Inc."
      [] OTHER         -> NoManufacturer

\* A freshly created handle.
human_interface_device ==
    [observed |-> FALSE, grabbed |-> FALSE, seize_failed |-> FALSE,
     pressed_keys |-> {}, caps_lock_led |-> FALSE]

hid_observe(hid) == [hid EXCEPT !.observed = TRUE]

hid_unobserve(hid) == [hid EXCEPT !.observed = FALSE]

\* grab(callback) -> Result: ok is whether the exclusive seize succeeds.
hid_grab(hid, ok) ==
    IF ok THEN [hid EXCEPT !.grabbed = TRUE, !.seize_failed = FALSE]
          ELSE [hid EXCEPT !.seize_failed = TRUE]

hid_ungrab(hid) == [hid EXCEPT !.grabbed = FALSE, !.seize_failed = FALSE]

hid_set_caps_lock_led_state(hid, on) == [hid EXCEPT !.caps_lock_led = on]

\* clear_changed_keys(); clear_pressed_keys(): the handle's key buffers.
hid_clear_keys(hid) == [hid EXCEPT !.pressed_keys = {}]

hid_get_pressed_keys_count(hid) == Cardinality(hid.pressed_keys)

-----------------------------------------------------------------------------
(* device_grabber: private helpers.                                        *)

IsSelfOriginated(d) ==
    get_manufacturer(d) # NoManufacturer /\ get_manufacturer(d) = "pqrs.org"

observe(hid) == hid_observe(hid)

unobserve(hid) == hid_unobserve(hid)

\* The mutant of grab that seizes without stopping the observation first.
grab_keeps_observing(d, hid, ok, caps) ==
    IF IsSelfOriginated(d) THEN hid
    ELSE hid_set_caps_lock_led_state(hid_grab(hid, ok), caps = "on")

\* grab(hid): ok is the result of the seize, caps what
\* hid_system_client_.get_caps_lock_state() returns ("on", "off" or Unknown
\* for an empty optional).
grab(d, hid, ok, caps) ==
    IF IsSelfOriginated(d) THEN hid
    ELSE hid_set_caps_lock_led_state(hid_grab(unobserve(hid), ok), caps = "on")

\* The mutant of ungrab that releases the seize without observing again.
ungrab_without_observe(d, hid) ==
    IF IsSelfOriginated(d) THEN hid
    ELSE hid_ungrab(hid)

ungrab(d, hid) ==
    IF IsSelfOriginated(d) THEN hid
    ELSE observe(hid_ungrab(hid))

RECURSIVE SumPressed(_, _)
SumPressed(hids, ds) ==
    IF ds = {} THEN 0
    ELSE LET d == CHOOSE x \in ds : TRUE
         IN  hid_get_pressed_keys_count(hids[d]) + SumPressed(hids, ds \ {d})

get_all_devices_pressed_keys_count == SumPressed(hids_, DOMAIN hids_)

-----------------------------------------------------------------------------
(* The record of the calls a task makes: on the device handles, on          *)
(* modifier_flag_manager_, hid_system_client_, console_user_client_ and      *)
(* event_manipulator_, and on the logger. Queries are not recorded.          *)

Call(op, on, arg) == [op |-> op, on |-> on, arg |-> arg]

Recorded(cs) == IF recording THEN cs ELSE <<>>

\* The devices of ds in the order a loop over hids_ visits them.
RECURSIVE InOrder(_)
InOrder(ds) ==
    IF ds = {} THEN <<>>
    ELSE LET d == CHOOSE x \in ds : TRUE IN <<d>> \o InOrder(ds \ {d})

RECURSIVE Flatten(_)
Flatten(seqs) ==
    IF seqs = <<>> THEN <<>> ELSE Head(seqs) \o Flatten(Tail(seqs))

Count(cs, c) == Cardinality({i \in DOMAIN cs : cs[i] = c})

CountOp(cs, op) == Cardinality({i \in DOMAIN cs : cs[i].op = op})

observe_calls(d) == <<Call("observe", d, <<>>)>>

grab_calls(d, caps) ==
    IF IsSelfOriginated(d) THEN <<>>
    ELSE <<Call("unobserve", d, <<>>), Call("grab", d, <<>>),
           Call("set_caps_lock_led_state", d, <<IF caps = "on" THEN "on" ELSE "off">>)>>

ungrab_calls(d) ==
    IF IsSelfOriginated(d) THEN <<>>
    ELSE <<Call("ungrab", d, <<>>)>> \o observe_calls(d)

clear_keys_calls(d) ==
    <<Call("clear_changed_keys", d, <<>>), Call("clear_pressed_keys", d, <<>>)>>

reset_calls ==
    <<Call("reset", "modifier_flag_manager_", <<>>),
      Call("set_caps_lock_state", "hid_system_client_", <<"off">>)>>

\* The mutant of cancel_grab_timer that forgets the source without
\* cancelling it.
cancel_without_dispatch_source_cancel(ts, gt) == ts

\* cancel_grab_timer(): the sources left alive (grab_timer_ becomes 0).
cancel_grab_timer(ts, gt) ==
    IF gt # 0 THEN [t \in (DOMAIN ts) \ {gt} |-> ts[t]] ELSE ts

\* dispatch_source_create: a source distinct from the live ones and from the
\* one grab_timer_ still names when it is created.
NewTimer(ts, gt) ==
    CHOOSE t \in TimerIds \ (DOMAIN ts \cup {gt}) :
        \A u \in TimerIds \ (DOMAIN ts \cup {gt}) : t <= u

\* The results get_caps_lock_state() can give.
CapsLockQueries == {IF caps_lock_state THEN "on" ELSE "off", Unknown}

-----------------------------------------------------------------------------
\* The members as the constructor leaves them.
Constructed ==
    /\ hids_ = [d \in {} |-> human_interface_device]
    /\ grabbed_ = FALSE
    /\ grab_timer_ = 0
    /\ grab_retry_count_ = 0
    /\ timers = [t \in {} |-> [last_warning_message_time |-> 0, ran |-> FALSE,
                                 warned |-> {}, repeated |-> FALSE]]
    /\ queue = <<>>
    /\ modifier_flags = {}
    /\ caps_lock_state \in BOOLEAN
    /\ key_repeat = FALSE
    /\ ready \in BOOLEAN
    /\ now = 0
    /\ completion_failed = {}
    /\ retry_due = {}
    /\ ungrab_last = FALSE
    /\ discarded = 0
    /\ delivered = 0
    /\ forwarded = 0
    /\ calls = <<>>
    /\ simple_modifications_ = [k \in {} |-> DefaultKeyCode]
    /\ simple_modifications_mutex_ = 0
    /\ callers = [c \in Threads |-> Idle]
    /\ serial = [k \in {} |-> DefaultKeyCode]
    /\ lifetime = "alive"
    /\ crashed = FALSE
    /\ broadcast = NoBroadcast

Init == Constructed /\ recording = FALSE

\* The same construction, with the calls and warnings recorded.
InitRecording == Constructed /\ recording = TRUE

environment == <<ready, now>>

-----------------------------------------------------------------------------
(* Exposed operations: each marshals its work onto the main queue.         *)

grab_devices ==
    /\ Len(queue) < MaxQueue
    /\ queue' = Append(queue, <<"grab", now - 1>>)
    /\ UNCHANGED <<hids_, grabbed_, grab_timer_, grab_retry_count_, timers,
                   modifier_flags, caps_lock_state, key_repeat, completion_failed,
                   retry_due, ungrab_last, calls, environment, router, rest>>

ungrab_devices ==
    /\ Len(queue) < MaxQueue
    /\ queue' = Append(queue, <<"ungrab">>)
    /\ UNCHANGED <<hids_, grabbed_, grab_timer_, grab_retry_count_, timers,
                   modifier_flags, caps_lock_state, key_repeat, completion_failed,
                   retry_due, ungrab_last, calls, environment, router, rest>>

\* The mutant of the grab_devices block that arms a new timer without
\* cancelling the one grab_timer_ names.
grab_devices_block_without_cancel ==
    /\ queue # <<>>
    /\ Head(queue)[1] = "grab"
    /\ TimerIds \ (DOMAIN timers \cup {grab_timer_}) # {}
    /\ LET t == NewTimer(timers, grab_timer_)
       IN  /\ timers' = [u \in DOMAIN timers \cup {t} |->
                            IF u = t
                            THEN [last_warning_message_time |-> Head(queue)[2],
                                  ran |-> FALSE, warned |-> {}, repeated |-> FALSE]
                            ELSE timers[u]]
           /\ grab_timer_' = t
    /\ grab_retry_count_' = 0
    /\ queue' = Tail(queue)
    /\ retry_due' = completion_failed
    /\ ungrab_last' = FALSE
    /\ calls' = <<>>
    /\ UNCHANGED <<hids_, grabbed_, modifier_flags, caps_lock_state, key_repeat,
                   completion_failed, environment, router, rest>>

\* The block of grab_devices, run by the main queue.
grab_devices_block ==
    /\ queue # <<>>
    /\ Head(queue)[1] = "grab"
    /\ TimerIds \ (DOMAIN timers \cup {grab_timer_}) # {}
    /\ LET left == cancel_grab_timer(timers, grab_timer_)
           t    == NewTimer(timers, grab_timer_)
       IN  /\ timers' = [u \in DOMAIN left \cup {t} |->
                            IF u = t
                            THEN [last_warning_message_time |-> Head(queue)[2],
                                  ran |-> FALSE, warned |-> {}, repeated |-> FALSE]
                            ELSE left[u]]
           /\ grab_timer_' = t
    /\ grab_retry_count_' = 0
    /\ queue' = Tail(queue)
    /\ retry_due' = completion_failed
    /\ ungrab_last' = FALSE
    /\ calls' = <<>>
    /\ UNCHANGED <<hids_, grabbed_, modifier_flags, caps_lock_state, key_repeat,
                   completion_failed, environment, router, rest>>

\* The calls the loop and the tail of the ungrab_devices block make.
ungrab_devices_calls ==
    LET order == InOrder(DOMAIN hids_)
    IN  Flatten([i \in DOMAIN order |->
                    ungrab_calls(order[i]) \o clear_keys_calls(order[i])])
        \o reset_calls
        \o <<Call("stop_key_repeat", "console_user_client_", <<>>),
             Call("info", "logger", <<"devices are ungrabbed">>)>>

\* The mutant of the ungrab_devices block that does not return when
\* grabbed_ is false.
ungrab_devices_block_unguarded ==
    /\ queue # <<>>
    /\ Head(queue)[1] = "ungrab"
    /\ queue' = Tail(queue)
    /\ grabbed_' = FALSE
    /\ timers' = cancel_grab_timer(timers, grab_timer_)
    /\ grab_timer_' = 0
    /\ hids_' = [d \in DOMAIN hids_ |-> hid_clear_keys(ungrab(d, hids_[d]))]
    /\ modifier_flags' = {}
    /\ caps_lock_state' = FALSE
    /\ key_repeat' = FALSE
    /\ completion_failed' = {}
    /\ retry_due' = {}
    /\ calls' = Recorded(ungrab_devices_calls)
    /\ ungrab_last' = TRUE
    /\ UNCHANGED <<grab_retry_count_, environment, router, rest>>

\* The block of ungrab_devices, run by the main queue.
ungrab_devices_block ==
    /\ queue # <<>>
    /\ Head(queue)[1] = "ungrab"
    /\ queue' = Tail(queue)
    /\ IF ~grabbed_
       THEN /\ calls' = <<>>
            /\ UNCHANGED <<hids_, grabbed_, grab_timer_, timers, modifier_flags,
                           caps_lock_state, key_repeat, completion_failed, retry_due>>
       ELSE /\ grabbed_' = FALSE
            /\ timers' = cancel_grab_timer(timers, grab_timer_)
            /\ grab_timer_' = 0
            /\ hids_' = [d \in DOMAIN hids_ |-> hid_clear_keys(ungrab(d, hids_[d]))]
            /\ modifier_flags' = {}
            /\ caps_lock_state' = FALSE
            /\ key_repeat' = FALSE
            /\ completion_failed' = {}
            /\ retry_due' = {}
            /\ calls' = Recorded(ungrab_devices_calls)
    /\ ungrab_last' = TRUE
    /\ UNCHANGED <<grab_retry_count_, environment, router, rest>>

-----------------------------------------------------------------------------
(* The event handler of a grab timer.                                      *)

PreconditionsMet == ready /\ get_all_devices_pressed_keys_count = 0

\* The mutant of the warning that is not held back within a second.
WarnsAlways(t) == ~PreconditionsMet

\* The handler returns after logging a warning at most once per second.
WarnsAndReturns(t) ==
    /\ ~PreconditionsMet
    /\ timers[t].last_warning_message_time # now

\* The message of the handler's warning: the later assignment wins.
warning_message ==
    IF get_all_devices_pressed_keys_count > 0
    THEN "There are pressed down keys in some devices. Please release them."
    ELSE "event_manipulator_ is not ready. Please wait for a while."

\* The calls the loop and the tail of a grab completion make.
grab_completion_calls(caps) ==
    LET order == InOrder(DOMAIN hids_)
    IN  Flatten([i \in DOMAIN order |->
                    grab_calls(order[i], caps) \o clear_keys_calls(order[i])])
        \o reset_calls
        \o <<Call("info", "logger", <<"devices are grabbed">>)>>

grab_timer_event_handler(t, seizable, caps) ==
    /\ t \in DOMAIN timers
    /\ IF grabbed_
       THEN /\ timers' = [timers EXCEPT ![t].ran = @ \/ PreconditionsMet]
            /\ calls' = <<>>
            /\ UNCHANGED <<hids_, grabbed_, grab_timer_, modifier_flags,
                           caps_lock_state, completion_failed, retry_due>>
       ELSE IF WarnsAndReturns(t)
       THEN /\ timers' = [timers EXCEPT
                             ![t].last_warning_message_time = now,
                             ![t].warned = IF recording THEN @ \cup {now} ELSE @,
                             ![t].repeated = @ \/ (recording /\ now \in timers[t].warned)]
            /\ calls' = Recorded(<<Call("warn", "logger", <<warning_message>>)>>)
            /\ UNCHANGED <<hids_, grabbed_, grab_timer_, modifier_flags,
                           caps_lock_state, completion_failed, retry_due>>
       ELSE /\ grabbed_' = TRUE
            /\ hids_' = [d \in DOMAIN hids_ |->
                            hid_clear_keys(grab(d, hids_[d], d \in seizable, caps))]
            /\ modifier_flags' = {}
            /\ caps_lock_state' = FALSE
            /\ completion_failed' = {d \in DOMAIN hids_' : hids_'[d].seize_failed}
            /\ retry_due' = {}
            /\ calls' = Recorded(grab_completion_calls(caps))
            /\ LET left == cancel_grab_timer(timers, grab_timer_)
               IN  timers' = [u \in DOMAIN left |->
                                 IF u = t
                                 THEN [left[u] EXCEPT !.ran = @ \/ PreconditionsMet]
                                 ELSE left[u]]
            /\ grab_timer_' = 0
    /\ UNCHANGED <<grab_retry_count_, queue, key_repeat, ungrab_last, environment,
                   router, rest>>

-----------------------------------------------------------------------------
(* Hot-plug callbacks of the IOHIDManager.                                 *)

\* history: an insertion into hids_ or an erasure from it happens while a
\* set_caps_lock_led_state call iterates hids_ on its caller's thread.
Overlapped(b) == IF b.active THEN [b EXCEPT !.raced = TRUE] ELSE b

\* success is whether result is kIOReturnSuccess
\* (static_device_matching_callback). The IOHIDManager reports a device as
\* matched once until it reports its removal.
device_matching_callback(d, success, ok, caps) ==
    /\ d \notin DOMAIN hids_
    /\ IF ~success
       THEN /\ calls' = <<>>
            /\ UNCHANGED hids_
       ELSE /\ hids_' = [e \in DOMAIN hids_ \cup {d} |->
                            IF e = d
                            THEN IF grabbed_
                                 THEN grab(d, human_interface_device, ok, caps)
                                 ELSE observe(human_interface_device)
                            ELSE hids_[e]]
            /\ calls' = Recorded(<<Call("info", "logger", <<"matching device">>)>>
                                 \o (IF grabbed_ THEN grab_calls(d, caps)
                                                 ELSE observe_calls(d)))
    /\ broadcast' = IF success THEN Overlapped(broadcast) ELSE broadcast
    /\ UNCHANGED <<grabbed_, grab_timer_, grab_retry_count_, timers, queue,
                   modifier_flags, caps_lock_state, key_repeat, completion_failed,
                   retry_due, ungrab_last, environment, router, aside>>

device_removal_callback(d, success) ==
    /\ IF success /\ d \in DOMAIN hids_
       THEN /\ hids_' = [e \in (DOMAIN hids_) \ {d} |-> hids_[e]]
            /\ completion_failed' = completion_failed \ {d}
            /\ retry_due' = retry_due \ {d}
            /\ calls' = Recorded(<<Call("info", "logger", <<"removal device">>)>>)
       ELSE /\ calls' = <<>>
            /\ UNCHANGED <<hids_, completion_failed, retry_due>>
    /\ broadcast' = IF success /\ d \in DOMAIN hids_ THEN Overlapped(broadcast)
                                                        ELSE broadcast
    /\ UNCHANGED <<grabbed_, grab_timer_, grab_retry_count_, timers, queue,
                   modifier_flags, caps_lock_state, key_repeat, ungrab_last, environment,
                   router, aside>>

-----------------------------------------------------------------------------
(* The environment: keys, the event manipulator's readiness, the clock.    *)

\* A key goes down on a device whose handle receives values.
KeyDown(d, k) ==
    /\ d \in DOMAIN hids_
    /\ hids_[d].observed \/ hids_[d].grabbed
    /\ k \notin hids_[d].pressed_keys
    /\ hids_' = [hids_ EXCEPT ![d].pressed_keys = @ \cup {k}]
    /\ UNCHANGED <<grabbed_, grab_timer_, grab_retry_count_, timers, queue,
                   modifier_flags, caps_lock_state, key_repeat, completion_failed,
                   retry_due, ungrab_last, calls, environment, router, rest>>

KeyUp(d, k) ==
    /\ d \in DOMAIN hids_
    /\ hids_[d].observed \/ hids_[d].grabbed
    /\ k \in hids_[d].pressed_keys
    /\ hids_' = [hids_ EXCEPT ![d].pressed_keys = @ \ {k}]
    /\ UNCHANGED <<grabbed_, grab_timer_, grab_retry_count_, timers, queue,
                   modifier_flags, caps_lock_state, key_repeat, completion_failed,
                   retry_due, ungrab_last, calls, environment, router, rest>>

ReadyChanges ==
    /\ ready' = ~ready
    /\ UNCHANGED <<orchestration, now, calls, router, rest>>

SecondPasses ==
    /\ now < MaxTime
    /\ now' = now + 1
    /\ UNCHANGED <<orchestration, ready, calls, router, rest>>

-----------------------------------------------------------------------------
(* The value callback handed to the device handles.                        *)

kHIDPage_KeyboardOrKeypad == 7
kHIDPage_AppleVendorTopCase == 255
kHIDUsage_KeyboardErrorUndefined == 3
kHIDUsage_Keyboard_Reserved == 65535
kHIDUsage_AV_TopCase_KeyboardFn == 3

UsagePages == {kHIDPage_KeyboardOrKeypad, kHIDPage_AppleVendorTopCase, 12}
Usages == {kHIDUsage_KeyboardErrorUndefined, 4, 65534, kHIDUsage_Keyboard_Reserved}
IntegerValues == {0, 1, 2}

\* krbn::key_code(usage): the key code with the usage's number.
key_code(usage) == [name |-> "usage", usage |-> usage]

\* krbn::key_code::vk_fn_modifier: a key code that is no usage's.
vk_fn_modifier == [name |-> "vk_fn_modifier", usage |-> 0]

\* The mutant of the value callback that lacks the grabbed_ gate.
handle_keyboard_events_ungated(flag, usage_page, usage, integer_value) ==
    IF usage_page = kHIDPage_KeyboardOrKeypad
    THEN IF kHIDUsage_KeyboardErrorUndefined < usage /\ usage < kHIDUsage_Keyboard_Reserved
         THEN <<[code |-> key_code(usage), pressed |-> integer_value # 0]>>
         ELSE <<>>
    ELSE IF usage_page = kHIDPage_AppleVendorTopCase
    THEN IF usage = kHIDUsage_AV_TopCase_KeyboardFn
         THEN <<[code |-> vk_fn_modifier, pressed |-> integer_value # 0]>>
         ELSE <<>>
    ELSE <<>>

\* The mutant of the value callback that lets the two sentinel usages pass.
handle_keyboard_events_with_sentinels(flag, usage_page, usage, integer_value) ==
    IF ~flag THEN <<>>
    ELSE IF usage_page = kHIDPage_KeyboardOrKeypad
    THEN IF kHIDUsage_KeyboardErrorUndefined <= usage /\ usage <= kHIDUsage_Keyboard_Reserved
         THEN <<[code |-> key_code(usage), pressed |-> integer_value # 0]>>
         ELSE <<>>
    ELSE IF usage_page = kHIDPage_AppleVendorTopCase
    THEN IF usage = kHIDUsage_AV_TopCase_KeyboardFn
         THEN <<[code |-> vk_fn_modifier, pressed |-> integer_value # 0]>>
         ELSE <<>>
    ELSE <<>>

\* The handle_keyboard_event calls the value callback makes for an event that
\* arrives while grabbed_ = flag.
handle_keyboard_events(flag, usage_page, usage, integer_value) ==
    IF ~flag THEN <<>>
    ELSE IF usage_page = kHIDPage_KeyboardOrKeypad
    THEN IF kHIDUsage_KeyboardErrorUndefined < usage /\ usage < kHIDUsage_Keyboard_Reserved
         THEN <<[code |-> key_code(usage), pressed |-> integer_value # 0]>>
         ELSE <<>>
    ELSE IF usage_page = kHIDPage_AppleVendorTopCase
    THEN IF usage = kHIDUsage_AV_TopCase_KeyboardFn
         THEN <<[code |-> vk_fn_modifier, pressed |-> integer_value # 0]>>
         ELSE <<>>
    ELSE <<>>

\* A handle that is observed or grabbed delivers the values of its device.
value_callback(d, usage_page, usage, integer_value) ==
    /\ d \in DOMAIN hids_
    /\ hids_[d].observed \/ hids_[d].grabbed
    /\ discarded + delivered < MaxEvents
    /\ discarded' = IF grabbed_ THEN discarded ELSE discarded + 1
    /\ delivered' = IF grabbed_ THEN delivered + 1 ELSE delivered
    /\ forwarded' = forwarded +
                       Len(handle_keyboard_events(grabbed_, usage_page, usage, integer_value))
    /\ LET events == handle_keyboard_events(grabbed_, usage_page, usage, integer_value)
       IN  calls' = Recorded([i \in DOMAIN events |->
                                 Call("handle_keyboard_event", d,
                                      <<events[i].code, events[i].pressed>>)])
    /\ UNCHANGED <<orchestration, environment, rest>>

-----------------------------------------------------------------------------
NonSelf(ds) == {d \in ds : ~IsSelfOriginated(d)}

\* The steps of the program and of its environment, with the devices of ds
\* attaching and detaching.
NextOver(ds) ==
    \/ grab_devices
    \/ ungrab_devices
    \/ grab_devices_block
    \/ ungrab_devices_block
    \/ \E t \in TimerIds, caps \in CapsLockQueries :
         \E seizable \in SUBSET NonSelf(DOMAIN hids_) :
            grab_timer_event_handler(t, seizable, caps)
    \/ \E d \in ds, success, ok \in BOOLEAN, caps \in CapsLockQueries :
         device_matching_callback(d, success, ok, caps)
    \/ \E d \in ds, success \in BOOLEAN : device_removal_callback(d, success)
    \/ \E d \in ds, k \in Keys : KeyDown(d, k)
    \/ \E d \in ds, k \in Keys : KeyUp(d, k)
    \/ ReadyChanges
    \/ SecondPasses

Next == NextOver(Devices)

Spec == Init /\ [][Next]_vars

\* The orchestration with the event router, in a quiet environment.
RouterNext ==
    \/ grab_devices
    \/ ungrab_devices
    \/ grab_devices_block
    \/ ungrab_devices_block
    \/ \E t \in TimerIds, caps \in CapsLockQueries :
         \E seizable \in SUBSET NonSelf(DOMAIN hids_) :
            grab_timer_event_handler(t, seizable, caps)
    \/ \E d \in Devices, success, ok \in BOOLEAN, caps \in CapsLockQueries :
         device_matching_callback(d, success, ok, caps)
    \/ \E d \in Devices, success \in BOOLEAN : device_removal_callback(d, success)
    \/ \E d \in Devices, usage_page \in UsagePages, usage \in Usages,
          integer_value \in IntegerValues :
            value_callback(d, usage_page, usage, integer_value)

SpecRouter == Init /\ [][RouterNext]_vars

\* A timer source that is not cancelled fires every 0.1 s, and the main queue
\* runs the blocks dispatched to it.
TimerFires(t) ==
    \E caps \in CapsLockQueries :
      \E seizable \in SUBSET NonSelf(DOMAIN hids_) :
         grab_timer_event_handler(t, seizable, caps)

\* The liveness of the retry loop is checked with one keyboard and the
\* virtual device attaching and detaching.
LiveDevices == {"virtual", "kbd_a"}

LiveNext == NextOver(LiveDevices)

LiveSpec ==
    /\ Init
    /\ [][LiveNext]_vars
    /\ \A t \in TimerIds : WF_vars(TimerFires(t))
    /\ WF_vars(grab_devices_block)
    /\ WF_vars(ungrab_devices_block)

-----------------------------------------------------------------------------
(* The session: key repeat and the caps lock key, with the calls recorded.  *)

\* The event manipulator starts a key repeat through console_user_client_
\* for a key it was handed, which happens only while grabbed_.
KeyRepeatStarts ==
    /\ grabbed_
    /\ ~key_repeat
    /\ key_repeat' = TRUE
    /\ UNCHANGED <<hids_, grabbed_, grab_timer_, grab_retry_count_, timers, queue,
                   modifier_flags, caps_lock_state, completion_failed, retry_due,
                   ungrab_last, calls, environment, router, rest>>

\* The hardware caps lock state changes behind hid_system_client_.
CapsLockToggles ==
    /\ caps_lock_state' = ~caps_lock_state
    /\ UNCHANGED <<hids_, grabbed_, grab_timer_, grab_retry_count_, timers, queue,
                   modifier_flags, key_repeat, completion_failed, retry_due,
                   ungrab_last, calls, environment, router, rest>>

\* The orchestration within one second of the clock, with the key repeat and
\* the caps lock key.
SessionNext ==
    \/ grab_devices
    \/ ungrab_devices
    \/ grab_devices_block
    \/ ungrab_devices_block
    \/ \E t \in TimerIds, caps \in CapsLockQueries :
         \E seizable \in SUBSET NonSelf(DOMAIN hids_) :
            grab_timer_event_handler(t, seizable, caps)
    \/ \E d \in LiveDevices, success, ok \in BOOLEAN, caps \in CapsLockQueries :
         device_matching_callback(d, success, ok, caps)
    \/ \E d \in LiveDevices, success \in BOOLEAN : device_removal_callback(d, success)
    \/ \E d \in LiveDevices, k \in Keys : KeyDown(d, k)
    \/ \E d \in LiveDevices, k \in Keys : KeyUp(d, k)
    \/ ReadyChanges
    \/ KeyRepeatStarts
    \/ CapsLockToggles

SpecSession == InitRecording /\ [][SessionNext]_vars

\* The orchestration with the clock and one keyboard, the warnings recorded.
WarningsNext == NextOver({"kbd_a"})

SpecWarnings == InitRecording /\ [][WarningsNext]_vars

\* The orchestration with the event router, the calls recorded, and one
\* keyboard attaching and detaching.
TranslateDevices == {"kbd_a"}

TranslateNext ==
    \/ grab_devices
    \/ ungrab_devices
    \/ grab_devices_block
    \/ ungrab_devices_block
    \/ \E t \in TimerIds, caps \in CapsLockQueries :
         \E seizable \in SUBSET NonSelf(DOMAIN hids_) :
            grab_timer_event_handler(t, seizable, caps)
    \/ \E d \in TranslateDevices, success, ok \in BOOLEAN, caps \in CapsLockQueries :
         device_matching_callback(d, success, ok, caps)
    \/ \E d \in TranslateDevices, success \in BOOLEAN :
         device_removal_callback(d, success)
    \/ \E d \in TranslateDevices, usage_page \in UsagePages, usage \in Usages,
          integer_value \in IntegerValues :
            value_callback(d, usage_page, usage, integer_value)

SpecTranslate == InitRecording /\ [][TranslateNext]_vars

-----------------------------------------------------------------------------
(* The simple modification table and the threads that mutate it.            *)

\* What the table's operations leave alone.
grabber == <<orchestration, environment, router, recording, calls, lifetime,
             crashed, broadcast>>

EmptyTable == [k \in {} |-> DefaultKeyCode]

\* The mutant of the lock acquisition that does not wait for the mutex.
CanLockAlways(m) == TRUE

\* std::lock_guard's constructor returns once the mutex is free.
CanLock(m) == m = 0

InGuard(c) == callers[c].pc \in {"locked", "assign", "unlock"}

\* A thread calls clear_simple_modifications().
clear_simple_modifications(c) ==
    /\ callers[c] = Idle
    /\ callers' = [callers EXCEPT ![c] = [Idle EXCEPT !.op = "clear", !.pc = "lock"]]
    /\ UNCHANGED <<simple_modifications_, simple_modifications_mutex_, serial, grabber>>

\* A thread calls add_simple_modification(from_key_code, to_key_code).
add_simple_modification(c, from_key_code, to_key_code) ==
    /\ callers[c] = Idle
    /\ callers' = [callers EXCEPT ![c] = [op |-> "add", pc |-> "lock",
                                          from |-> from_key_code, to |-> to_key_code]]
    /\ UNCHANGED <<simple_modifications_, simple_modifications_mutex_, serial, grabber>>

\* The guard of either call takes the mutex; the call takes its place in the
\* serial order here.
lock_guard(c) ==
    /\ callers[c].pc = "lock"
    /\ CanLock(simple_modifications_mutex_)
    /\ simple_modifications_mutex_' = c
    /\ callers' = [callers EXCEPT ![c].pc = "locked"]
    /\ serial' = IF callers[c].op = "clear"
                 THEN EmptyTable
                 ELSE [k \in DOMAIN serial \cup {callers[c].from} |->
                          IF k = callers[c].from THEN callers[c].to ELSE serial[k]]
    /\ UNCHANGED <<simple_modifications_, grabber>>

\* simple_modifications_.clear() destroys the entries one after the other.
clear_entries(c) ==
    /\ callers[c].pc = "locked"
    /\ callers[c].op = "clear"
    /\ IF simple_modifications_ = EmptyTable
       THEN /\ callers' = [callers EXCEPT ![c].pc = "unlock"]
            /\ UNCHANGED simple_modifications_
       ELSE /\ \E k \in DOMAIN simple_modifications_ :
                 simple_modifications_' =
                     [j \in (DOMAIN simple_modifications_) \ {k} |->
                         simple_modifications_[j]]
            /\ UNCHANGED callers
    /\ UNCHANGED <<simple_modifications_mutex_, serial, grabber>>

\* simple_modifications_[from_key_code]: operator[] inserts a
\* value-initialized entry when the key is missing.
subscript(c) ==
    /\ callers[c].pc = "locked"
    /\ callers[c].op = "add"
    /\ simple_modifications_' =
           [k \in DOMAIN simple_modifications_ \cup {callers[c].from} |->
               IF k \in DOMAIN simple_modifications_ THEN simple_modifications_[k]
                                                     ELSE DefaultKeyCode]
    /\ callers' = [callers EXCEPT ![c].pc = "assign"]
    /\ UNCHANGED <<simple_modifications_mutex_, serial, grabber>>

\* ... = to_key_code: the assignment through the reference operator[] gave.
\* A reference to an entry another thread destroyed writes freed memory.
assign(c) ==
    /\ callers[c].pc = "assign"
    /\ simple_modifications_' =
           [k \in DOMAIN simple_modifications_ |->
               IF k = callers[c].from THEN callers[c].to ELSE simple_modifications_[k]]
    /\ callers' = [callers EXCEPT ![c].pc = "unlock"]
    /\ UNCHANGED <<simple_modifications_mutex_, serial, grabber>>

\* The guard's destructor releases the mutex and the call returns.
unlock(c) ==
    /\ callers[c].pc = "unlock"
    /\ simple_modifications_mutex_' = 0
    /\ callers' = [callers EXCEPT ![c] = Idle]
    /\ UNCHANGED <<simple_modifications_, serial, grabber>>

TableNext ==
    \/ \E c \in Threads : clear_simple_modifications(c)
    \/ \E c \in Threads, from_key_code \in FromKeyCodes, to_key_code \in ToKeyCodes :
         add_simple_modification(c, from_key_code, to_key_code)
    \/ \E c \in Threads : lock_guard(c)
    \/ \E c \in Threads : clear_entries(c)
    \/ \E c \in Threads : subscript(c)
    \/ \E c \in Threads : assign(c)
    \/ \E c \in Threads : unlock(c)

SpecTable == Init /\ [][TableNext]_vars

-----------------------------------------------------------------------------
(* Destruction.                                                             *)

\* ~device_grabber, first statement: cancel_grab_timer().
destructor_cancel ==
    /\ lifetime = "alive"
    /\ timers' = cancel_grab_timer(timers, grab_timer_)
    /\ grab_timer_' = 0
    /\ lifetime' = "cancelled"
    /\ calls' = <<>>
    /\ UNCHANGED <<hids_, grabbed_, grab_retry_count_, queue, modifier_flags,
                   caps_lock_state, key_repeat, completion_failed, retry_due,
                   ungrab_last, environment, router, recording, table, crashed,
                   broadcast>>

\* ~device_grabber, the rest: the manager leaves the run loop and is
\* released, then the members are destroyed, hids_ with its handles among
\* them. The blocks the main queue still holds keep their pointer to the
\* object.
destructor_release ==
    /\ lifetime = "cancelled"
    /\ lifetime' = "destroyed"
    /\ hids_' = [d \in {} |-> human_interface_device]
    /\ completion_failed' = {}
    /\ retry_due' = {}
    /\ calls' = <<>>
    /\ UNCHANGED <<grabbed_, grab_timer_, grab_retry_count_, timers, queue,
                   modifier_flags, caps_lock_state, key_repeat, ungrab_last,
                   environment, router, recording, table, crashed, broadcast>>

\* A block or a timer handler that runs on the destroyed object reads and
\* writes freed memory: it either goes through as on the live object (the
\* actions of the orchestration) or takes the process down.
freed_access_crashes ==
    /\ lifetime = "destroyed"
    /\ queue # <<>> \/ DOMAIN timers # {}
    /\ crashed' = TRUE
    /\ UNCHANGED <<orchestration, calls, environment, router, recording, table,
                   lifetime, broadcast>>

\* The requests and the hot-plug callbacks come while the object is alive;
\* the main queue runs its blocks and timer handlers whenever the main
\* thread is not inside the destructor.
ShutdownNext ==
    \/ lifetime = "alive" /\ grab_devices
    \/ lifetime = "alive" /\ ungrab_devices
    \/ lifetime # "cancelled" /\ ~crashed /\ grab_devices_block
    \/ lifetime # "cancelled" /\ ~crashed /\ ungrab_devices_block
    \/ \E t \in TimerIds, caps \in CapsLockQueries :
         \E seizable \in SUBSET NonSelf(DOMAIN hids_) :
            /\ lifetime # "cancelled" /\ ~crashed
            /\ grab_timer_event_handler(t, seizable, caps)
    \/ \E d \in LiveDevices, success, ok \in BOOLEAN, caps \in CapsLockQueries :
         lifetime = "alive" /\ device_matching_callback(d, success, ok, caps)
    \/ \E d \in LiveDevices, success \in BOOLEAN :
         lifetime = "alive" /\ device_removal_callback(d, success)
    \/ destructor_cancel
    \/ destructor_release
    \/ ~crashed /\ freed_access_crashes

SpecShutdown == Init /\ [][ShutdownNext]_vars

-----------------------------------------------------------------------------
(* set_caps_lock_led_state, called on a thread of the caller's.             *)

LedStates == {"on", "off"}

\* The call enters its loop: begin() of hids_.
set_caps_lock_led_state_begin(state) ==
    /\ ~broadcast.active
    /\ broadcast' = [active |-> TRUE, todo |-> DOMAIN hids_, state |-> state,
                     raced |-> FALSE]
    /\ UNCHANGED <<orchestration, calls, environment, router, aside>>

\* One pass of the loop. An entry the main queue erased meanwhile is freed
\* memory: the write is lost.
set_caps_lock_led_state_visit(d) ==
    /\ broadcast.active
    /\ d \in broadcast.todo
    /\ broadcast' = [broadcast EXCEPT !.todo = @ \ {d}]
    /\ hids_' = IF d \in DOMAIN hids_
                THEN [hids_ EXCEPT
                        ![d] = hid_set_caps_lock_led_state(@, broadcast.state = "on")]
                ELSE hids_
    /\ UNCHANGED <<grabbed_, grab_timer_, grab_retry_count_, timers, queue,
                   modifier_flags, caps_lock_state, key_repeat, completion_failed,
                   retry_due, ungrab_last, calls, environment, router, aside>>

\* The loop reaches end() and the call returns.
set_caps_lock_led_state_end ==
    /\ broadcast.active
    /\ broadcast.todo = {}
    /\ broadcast' = NoBroadcast
    /\ UNCHANGED <<orchestration, calls, environment, router, aside>>

\* An iterator that an insertion or an erasure invalidated can take the
\* process down instead.
invalid_iterator_crashes ==
    /\ broadcast.active
    /\ broadcast.raced
    /\ crashed' = TRUE
    /\ UNCHANGED <<orchestration, calls, environment, router, recording, table,
                   lifetime, broadcast>>

BroadcastNext ==
    \/ ~crashed /\ grab_devices
    \/ ~crashed /\ ungrab_devices
    \/ ~crashed /\ grab_devices_block
    \/ ~crashed /\ ungrab_devices_block
    \/ \E t \in TimerIds, caps \in CapsLockQueries :
         \E seizable \in SUBSET NonSelf(DOMAIN hids_) :
            ~crashed /\ grab_timer_event_handler(t, seizable, caps)
    \/ \E d \in LiveDevices, success, ok \in BOOLEAN, caps \in CapsLockQueries :
         ~crashed /\ device_matching_callback(d, success, ok, caps)
    \/ \E d \in LiveDevices, success \in BOOLEAN :
         ~crashed /\ device_removal_callback(d, success)
    \/ \E state \in LedStates : ~crashed /\ set_caps_lock_led_state_begin(state)
    \/ \E d \in LiveDevices : ~crashed /\ set_caps_lock_led_state_visit(d)
    \/ ~crashed /\ set_caps_lock_led_state_end
    \/ ~crashed /\ invalid_iterator_crashes

SpecBroadcast == Init /\ [][BroadcastNext]_vars

-----------------------------------------------------------------------------
(* Properties.                                                             *)

Registered == DOMAIN hids_

\* C1: a step taken while the total pressed-key count over all registered
\* devices is greater than 0 never turns grabbed_ from false to true: the
\* flag becomes true only on a tick at which the count is 0.
C1_SafetyGate ==
    [][get_all_devices_pressed_keys_count > 0 => (grabbed_' => grabbed_)]_vars

\* C2: once the block of ungrab_devices() has run, and until the block of a
\* later grab_devices() runs, no grab timer is alive and grabbed_ is false.
C2_UngrabIntervenes ==
    ungrab_last => (grab_timer_ = 0 /\ DOMAIN timers = {} /\ ~grabbed_)

\* C3: a registered device whose manufacturer is "pqrs.org" is neither
\* observed nor grabbed, in every reachable state.
C3_SelfOriginatedExcluded ==
    \A d \in Registered :
        IsSelfOriginated(d) => (~hids_[d].observed /\ ~hids_[d].grabbed)

\* C4: at most one grab timer is alive and it is the one grab_timer_ names;
\* the block of grab_devices() leaves exactly one timer alive, a new one,
\* with every earlier timer cancelled.
AtMostOneTimer ==
    /\ Cardinality(DOMAIN timers) <= 1
    /\ DOMAIN timers = IF grab_timer_ = 0 THEN {} ELSE {grab_timer_}

GrabBlockRuns ==
    queue # <<>> /\ Head(queue)[1] = "grab" /\ queue' = Tail(queue)

C4_AtMostOneTimer ==
    /\ []AtMostOneTimer
    /\ [][GrabBlockRuns =>
            /\ DOMAIN timers' = {grab_timer_'}
            /\ grab_timer_' \notin DOMAIN timers \cup {0}]_vars

\* C4 witness: a second timer is the live one, armed by a grab_devices()
\* whose block ran while the first timer was still armed.
C4_Witness ==
    grab_timer_ = 2 /\ DOMAIN timers = {2}

\* C5: an event delivered to the value callback while grabbed_ is false
\* makes no handle_keyboard_event call, and the calls made never outnumber
\* the events delivered while grabbed_ was true.
C5_RoutingGate ==
    /\ [](forwarded <= delivered)
    /\ [][~grabbed_ => forwarded' = forwarded]_vars

\* C5 witness: events were delivered while grabbed_ was false, one of them
\* with a timer armed, and nothing was forwarded.
C5_Witness ==
    discarded = MaxEvents /\ forwarded = 0 /\ ~grabbed_ /\ grab_timer_ # 0

\* C6: the step that turns grabbed_ true with no seize failing leaves
\* every non-self-originated registered device grabbed and not observed,
\* the modifier flags empty, the hardware caps lock off and no timer alive;
\* and no state shows a device grabbed while grabbed_ is false, or a device
\* left unswitched while grabbed_ is true unless its seize failed.
Switched(hid) == hid.grabbed /\ ~hid.observed

NoPartialSwitch ==
    \A d \in NonSelf(Registered) :
        IF grabbed_ THEN Switched(hids_[d]) \/ hids_[d].seize_failed
                    ELSE ~hids_[d].grabbed

GrabCompleted ==
    /\ grabbed_
    /\ \A d \in NonSelf(Registered) : Switched(hids_[d])
    /\ modifier_flags = {}
    /\ ~caps_lock_state
    /\ grab_timer_ = 0
    /\ DOMAIN timers = {}

C6_AtomicTransition ==
    /\ []NoPartialSwitch
    /\ [][(~grabbed_ /\ grabbed_' /\ \A d \in DOMAIN hids_' : ~hids_'[d].seize_failed)
            => GrabCompleted']_vars

\* C6 witness: both keyboards and the virtual device are registered, both
\* keyboards were seized by a grab completion that found the caps lock on
\* (their LED is on) and forced it off.
C6_Witness ==
    /\ Registered = Devices
    /\ grabbed_ /\ grab_timer_ = 0 /\ ~caps_lock_state
    /\ \A d \in NonSelf(Registered) : Switched(hids_[d]) /\ hids_[d].caps_lock_led

\* C7: every non-self-originated registered device is grabbed (and not
\* observed) if grabbed_ is true and observed (and not grabbed) if it is false.
C7_RegistryConsistency ==
    \A d \in NonSelf(Registered) :
        IF grabbed_ THEN hids_[d].grabbed /\ ~hids_[d].observed
                    ELSE hids_[d].observed /\ ~hids_[d].grabbed

\* C8: whenever a timer is armed while grabbed_ is false, then, unless the
\* preconditions stop being satisfied or an ungrab_devices() or a new
\* grab_devices() block runs, grabbed_ eventually becomes true with the timer
\* disarmed; and until then the timer is not abandoned.
Retrying(t) == grab_timer_ = t /\ ~grabbed_

GrabbedAndDisarmed == grabbed_ /\ grab_timer_ = 0 /\ DOMAIN timers = {}

\* A new grab_devices() block replaced timer t, an ungrab_devices() block
\* ran, or a precondition is unmet.
Intervened(t) == grab_timer_ \notin {0, t} \/ ungrab_last \/ ~PreconditionsMet

C8_GrabLiveness ==
    /\ \A t \in TimerIds :
          [](Retrying(t) => <>(GrabbedAndDisarmed \/ Intervened(t)))
    /\ [][\A t \in TimerIds :
            Retrying(t) =>
                \/ grab_timer_' = t /\ t \in DOMAIN timers'
                \/ grabbed_'
                \/ grab_timer_' \notin {0, t}]_vars

\* C8 witness: a grab cycle that outlasted a second completed: the keyboard
\* is seized, the timer is disarmed and no ungrab_devices() block ran since
\* the cycle was started.
C8_Witness ==
    /\ GrabbedAndDisarmed
    /\ ~ungrab_last
    /\ now > 0
    /\ "kbd_a" \in Registered
    /\ Switched(hids_["kbd_a"])

\* C8 as claimed: after the block of any grab_devices() has run, also one
\* that ran while grabbed_ was already true, the system eventually is
\* grabbed with the timer disarmed unless something intervenes.
C8_GrabLivenessFromAnyState ==
    \A t \in TimerIds :
        [](grab_timer_ = t => <>(GrabbedAndDisarmed \/ Intervened(t)))

\* C9: after the step that turns grabbed_ true, every non-self-originated
\* device whose seize failed is still observed and every other one is grabbed.
C9_FailedSeizeStaysObserved ==
    [][(~grabbed_ /\ grabbed_') =>
         \A d \in NonSelf(DOMAIN hids_') :
            IF hids_'[d].seize_failed THEN hids_'[d].observed
                                      ELSE hids_'[d].grabbed]_vars

\* C10: once the handler of a timer armed by a later grab_devices() has run
\* with the preconditions satisfied, grab has been invoked again on every
\* device whose seize had failed before that timer was armed.
C10_FailedSeizeRetried ==
    \A t \in DOMAIN timers : timers[t].ran => retry_due = {}

\* C11: the block of ungrab_devices() that runs while grabbed_ is false
\* makes no call at all and leaves the registry, the handles, grabbed_, the
\* timer, the modifier flags, the caps lock and the key repeat as they were;
\* and every ungrab_devices() block leaves grabbed_ false, so that a block
\* that follows another one is of this kind.
UngrabBlockRuns ==
    queue # <<>> /\ Head(queue)[1] = "ungrab" /\ queue' = Tail(queue)

C11_UngrabIdempotent ==
    [][UngrabBlockRuns =>
         /\ ~grabbed_'
         /\ ~grabbed_ =>
               /\ calls' = <<>>
               /\ UNCHANGED <<hids_, grabbed_, grab_timer_, timers, modifier_flags,
                              caps_lock_state, key_repeat>>]_vars

\* C11 witness: an ungrab_devices() block was the last to run and the last
\* task made no call; grabbed_ is false and no timer is armed, while a key is
\* held on the keyboard and the caps lock is on.
C11_Witness ==
    /\ recording
    /\ ungrab_last /\ ~grabbed_ /\ grab_timer_ = 0
    /\ calls = <<>>
    /\ "kbd_a" \in Registered
    /\ hids_["kbd_a"].pressed_keys # {}
    /\ caps_lock_state

\* C12: the step in which the block of ungrab_devices() runs while grabbed_
\* is true ends with grabbed_ false and no timer alive, with every
\* non-self-originated device released (ungrab called once) and observed
\* again, the key buffers of every device cleared, the modifier flags empty,
\* the hardware caps lock set to off and stop_key_repeat called exactly once.
UngrabCompleted ==
    /\ ~grabbed_ /\ grab_timer_ = 0 /\ DOMAIN timers = {}
    /\ \A d \in NonSelf(Registered) :
          /\ ~hids_[d].grabbed /\ hids_[d].observed
          /\ Count(calls, Call("ungrab", d, <<>>)) = 1
          /\ Count(calls, Call("observe", d, <<>>)) = 1
    /\ \A d \in Registered :
          /\ hids_[d].pressed_keys = {}
          /\ Count(calls, Call("clear_changed_keys", d, <<>>)) = 1
          /\ Count(calls, Call("clear_pressed_keys", d, <<>>)) = 1
    /\ modifier_flags = {} /\ CountOp(calls, "reset") = 1
    /\ ~caps_lock_state /\ CountOp(calls, "set_caps_lock_state") = 1
    /\ ~key_repeat /\ CountOp(calls, "stop_key_repeat") = 1

UnmetTick(t) == ~grabbed_ /\ ~PreconditionsMet /\ TimerFires(t)

C13_WarningDeduplication ==
    /\ [](\A t \in DOMAIN timers : ~timers[t].repeated)
    /\ [][\A t \in DOMAIN timers :
            UnmetTick(t) =>
                IF now \in timers[t].warned
                THEN CountOp(calls', "warn") = 0
                ELSE /\ CountOp(calls', "warn") = 1
                     /\ t \in DOMAIN timers'
                     /\ timers'[t].warned = timers[t].warned \cup {now}]_vars

\* C13 witness: one timer has logged a warning in second 0 and another one in
\* second 1, the latter being the last call made.
C13_Witness ==
    /\ CountOp(calls, "warn") = 1
    /\ \E t \in DOMAIN timers : {0, 1} \subseteq timers[t].warned

\* C14: an event the value callback receives while grabbed_ is true makes
\* exactly one handle_keyboard_event(device, key_code(usage), value # 0) call
\* if its page is the keyboard page and its usage lies strictly between the
\* two sentinels, exactly one call with vk_fn_modifier and value # 0 if it
\* is the Fn usage of the top case page, and no call otherwise; and the
\* callback leaves grabbed_, the registry and the timer as they were.
Translation(d, usage_page, usage, integer_value) ==
    CASE /\ usage_page = kHIDPage_KeyboardOrKeypad
         /\ usage > kHIDUsage_KeyboardErrorUndefined
         /\ usage < kHIDUsage_Keyboard_Reserved ->
            <<Call("handle_keyboard_event", d, <<key_code(usage), integer_value # 0>>)>>
      [] /\ usage_page = kHIDPage_AppleVendorTopCase
         /\ usage = kHIDUsage_AV_TopCase_KeyboardFn ->
            <<Call("handle_keyboard_event", d, <<vk_fn_modifier, integer_value # 0>>)>>
      [] OTHER -> <<>>

C14_EventTranslation ==
    [][(grabbed_ /\ delivered' # delivered) =>
          \A d \in Registered, usage_page \in UsagePages, usage \in Usages,
             integer_value \in IntegerValues :
               value_callback(d, usage_page, usage, integer_value) =>
                   /\ calls' = Translation(d, usage_page, usage, integer_value)
                   /\ forwarded' = forwarded + Len(calls')
                   /\ UNCHANGED <<hids_, grabbed_, grab_timer_, timers>>]_vars

\* C14 witness: two events were delivered while grabbed_; one made no call
\* and the other, the last, was the Fn usage with a non-zero value.
C14_Witness ==
    /\ grabbed_
    /\ discarded = 0 /\ delivered = MaxEvents /\ forwarded = 1
    /\ Len(calls) = 1
    /\ calls[1].op = "handle_keyboard_event"
    /\ calls[1].on = "kbd_a"
    /\ calls[1].arg = <<vk_fn_modifier, TRUE>>

\* C15: at most one thread is inside clear_simple_modifications() or
\* add_simple_modification() past its lock, and it is the one that holds the
\* mutex; and whenever the mutex is free, which is when a call can start to
\* read or write the table, the table is the result of the completed calls
\* in the order in which they took the mutex: clear empties it, add maps from
\* to to and replaces the earlier entry of from.
MutualExclusion ==
    \A c \in Threads :
        InGuard(c) =>
            /\ simple_modifications_mutex_ = c
            /\ \A e \in Threads \ {c} : ~InGuard(e)

SerialResult ==
    simple_modifications_mutex_ = 0 => simple_modifications_ = serial

C15_TableExclusion == MutualExclusion /\ SerialResult

\* C15 witness: one thread is between the two halves of its
\* add_simple_modification (the entry is there with a value-initialized
\* value, replacing nothing yet of the table the serial order gives) while
\* another thread waits for the mutex.
C15_Witness ==
    \E c \in Threads, e \in Threads :
        /\ c # e
        /\ callers[c].pc = "assign"
        /\ simple_modifications_[callers[c].from] = DefaultKeyCode
        /\ simple_modifications_ # serial
        /\ callers[e].pc = "lock"
        /\ callers[e].op = "clear"

\* C16: a tick of a grab timer at which is_ready() is false changes neither
\* grabbed_ nor any device handle, nor the modifier flags nor the caps lock,
\* and leaves its timer armed.
C16_ReadinessGate ==
    [][\A t \in TimerIds :
          (TimerFires(t) /\ ~ready) =>
              /\ grabbed_' = grabbed_
              /\ UNCHANGED <<hids_, modifier_flags, caps_lock_state>>
              /\ t \in DOMAIN timers']_vars

\* C17 as claimed: a grab timer is alive only while grabbed_ is false.
C17_TimerOnlyWhileUngrabbed ==
    grabbed_ => (grab_timer_ = 0 /\ DOMAIN timers = {})

\* C17: the step that turns grabbed_ true leaves no timer alive, and a timer
\* is alive while grabbed_ is true only if the block of a grab_devices() that
\* ran while grabbed_ was true armed it; so the states are Ungrabbed,
\* ArmedRetrying, Grabbed with no timer and Grabbed with such a timer.
C17_StateMachineShape ==
    /\ [][(~grabbed_ /\ grabbed_') => (grab_timer_' = 0 /\ DOMAIN timers' = {})]_vars
    /\ [][(grabbed_' /\ DOMAIN timers' # {}) =>
             /\ grabbed_
             /\ GrabBlockRuns \/ DOMAIN timers' = DOMAIN timers]_vars

\* C17 witness: grabbed_ is true, the keyboard is seized, and the timer that
\* a grab_devices() block armed since is alive.
C17_Witness ==
    /\ grabbed_
    /\ grab_timer_ # 0 /\ DOMAIN timers = {grab_timer_}
    /\ "kbd_a" \in Registered /\ Switched(hids_["kbd_a"])

\* C18: after the step that turns grabbed_ true, the caps lock LED of every
\* grabbed device shows the hardware caps lock state.
C18_CapsLockLedConsistency ==
    [][(~grabbed_ /\ grabbed_') =>
          \A d \in DOMAIN hids_' :
              hids_'[d].grabbed => (hids_'[d].caps_lock_led = caps_lock_state')]_vars

\* C19: the destructor releases the manager only after the timer is
\* cancelled; once the object is destroyed no timer is alive, and no step
\* runs a queued block, arms a timer or runs a handler.
C19_ShutdownSafety ==
    /\ [](lifetime = "destroyed" => (grab_timer_ = 0 /\ DOMAIN timers = {}))
    /\ [][(lifetime = "cancelled" /\ lifetime' = "destroyed") =>
             DOMAIN timers = {}]_vars
    /\ [][lifetime = "destroyed" =>
             UNCHANGED <<queue, timers, grab_timer_, grabbed_, hids_>>]_vars

\* C20: while a set_caps_lock_led_state call iterates hids_ on its caller's
\* thread and has entries left to visit, no step inserts into hids_ or
\* erases from it.
C20_RegistryConfinement ==
    [][(broadcast.active /\ broadcast.todo # {}) =>
          DOMAIN hids_' = DOMAIN hids_]_vars

====
